---- MODULE Spec2Model ----
(***************************************************************************)
(* A model of the docking data pipeline: script/main.py (fetch, descriptor,*)
(* simulated score, result store, CSV export) and script/plots.py (the     *)
(* dashboard).  Numbers are scaled integers: masses and scores are in      *)
(* hundredths, LogP values in ten-thousandths.                             *)
(***************************************************************************)
EXTENDS Integers, Sequences, FiniteSets, TLC

VARIABLES
    pc,             \* main(): "start", "loop", "fetched", "done"
    idx,            \* main(): position of the for loop in all_items_to_process
    smiles_string,  \* main()/harness: first value returned by get_compound_data
    mw,             \* main()/harness: second value returned by get_compound_data
    store,          \* results.db, table screening_results: sequence of rows
    file,           \* natvssynt.csv: sequence of rows of text cells, <<>> = no file
    seed,           \* state of the random module for this process
    okNow,          \* history: names whose fetch returned a non-null encoding this run
    fetched,        \* history: names passed to get_compound_data this run, in order
    exports,        \* history: calls of export_to_csv this run
    prevOk,         \* history: okNow of the last completed run
    prevCount,      \* history: row count of the last completed run, -1 = none yet
    upc,            \* call harness: position
    reply,          \* call harness: what requests.get produces
    raised,         \* call harness: an exception left the called function
    log_p,          \* call harness: value returned by calculate_logp
    drug_type,      \* call harness: argument of run_docking_simulation
    random_score,   \* run_docking_simulation: first uniform draw
    bonus,          \* run_docking_simulation: second uniform draw
    final_score,    \* run_docking_simulation: returned value
    dpc,            \* create_dashboard(): position
    df,             \* create_dashboard(): the loaded table
    panels,         \* create_dashboard(): panels drawn so far
    labels,         \* create_dashboard(): point labels placed on the third panel
    image           \* dashboard.png: number of times it was written

pipeVars == <<pc, idx, store, file, seed, okNow, fetched, exports, prevOk, prevCount>>
localVars == <<smiles_string, mw>>
unitVars == <<upc, reply, raised, log_p>>
scoreVars == <<drug_type, random_score, bonus, final_score>>
dashVars == <<dpc, df, panels, labels, image>>
vars == <<pipeVars, localVars, unitVars, scoreVars, dashVars>>

----------------------------------------------------------------------------
(* Values: Python None, str and float, as they travel from the JSON body   *)
(* to the store.  A float is held as an integer number of hundredths.      *)

None == [k |-> "none", s |-> "", n |-> 0]
Str(t) == [k |-> "str", s |-> t, n |-> 0]
Num(x) == [k |-> "num", s |-> "", n |-> x]

\* Python truthiness, as used by "if not smiles_string"
Truthy(v) ==
    CASE v.k = "none" -> FALSE
      [] v.k = "str" -> v.s # ""
      [] OTHER -> v.n # 0

----------------------------------------------------------------------------
(* SECTION 1: the compound registry                                        *)

NATURAL_SUBSTRATES ==
    <<"Dihydrofolate", "Folic Acid", "Tetrahydrofolate", "7,8-Dihydrobiopterin", "L-Methionine">>

SYNTHETIC_INHIBITORS ==
    <<"Methotrexate", "Pemetrexed", "Aminopterin", "Trimethoprim", "Pyrimethamine">>

\* main(): the two loops that build the list of (name, label) pairs
all_items_to_process ==
    [i \in 1..Len(NATURAL_SUBSTRATES) |-> <<NATURAL_SUBSTRATES[i], "Natural">>]
    \o [i \in 1..Len(SYNTHETIC_INHIBITORS) |-> <<SYNTHETIC_INHIBITORS[i], "Synthetic">>]

NItems == Len(all_items_to_process)

----------------------------------------------------------------------------
(* SECTION 2: get_compound_data                                            *)

HttpOk == 200

\* A property record of the JSON body; a missing key is held as None, which
\* is what dict.get returns for it.
Result(iso, can, smi, weight) ==
    [IsomericSMILES |-> iso, CanonicalSMILES |-> can, SMILES |-> smi, MolecularWeight |-> weight]

\* What requests.get and response.json() can produce:
\*   kind "neterr"  requests.get raises (no connection, timeout)
\*   kind "http"    a response with a status code; body is
\*       "notjson"  response.json() raises
\*       "nokey"    JSON without PropertyTable/Properties
\*       "table"    JSON with the list props under PropertyTable/Properties
NetError == [kind |-> "neterr", status |-> 0, body |-> "", props |-> <<>>]
Http(status, body, props) == [kind |-> "http", status |-> status, body |-> body, props |-> props]

\* The try block of get_compound_data: exc is TRUE when a statement of the
\* block raises, otherwise smiles and mw are the returned pair.
TryBodyFirstEmpty(r) ==
    IF r.kind = "neterr" THEN [exc |-> TRUE, smiles |-> None, mw |-> None]
    ELSE IF r.status = HttpOk THEN
        IF r.body # "table" THEN [exc |-> TRUE, smiles |-> None, mw |-> None]
        ELSE IF Len(r.props) = 0 THEN [exc |-> TRUE, smiles |-> None, mw |-> None]
        ELSE
            LET first_result == r.props[1]
                s1 == first_result.IsomericSMILES
                s2 == IF s1.k = "none" THEN first_result.CanonicalSMILES ELSE s1
                s3 == IF s2.k = "none" THEN first_result.SMILES ELSE s2
            IN [exc |-> FALSE, smiles |-> s3, mw |-> first_result.MolecularWeight]
    ELSE [exc |-> FALSE, smiles |-> None, mw |-> None]

TryBody(r) ==
    IF r.kind = "neterr" THEN [exc |-> TRUE, smiles |-> None, mw |-> None]
    ELSE IF r.status = HttpOk THEN
        IF r.body # "table" THEN [exc |-> TRUE, smiles |-> None, mw |-> None]
        ELSE IF Len(r.props) = 0 THEN [exc |-> TRUE, smiles |-> None, mw |-> None]
        ELSE
            LET first_result == r.props[1]
                s1 == first_result.IsomericSMILES
                s2 == IF ~Truthy(s1) THEN first_result.CanonicalSMILES ELSE s1
                s3 == IF ~Truthy(s2) THEN first_result.SMILES ELSE s2
            IN [exc |-> FALSE, smiles |-> s3, mw |-> first_result.MolecularWeight]
    ELSE [exc |-> FALSE, smiles |-> None, mw |-> None]

get_compound_data_NarrowExcept(r) ==
    LET t == TryBody(r)
    IN IF t.exc
       THEN [smiles |-> None, mw |-> None, raised |-> r.kind # "neterr"]
       ELSE [smiles |-> t.smiles, mw |-> t.mw, raised |-> FALSE]

\* get_compound_data: the try block, and "except Exception" around all of it
get_compound_data(r) ==
    LET t == TryBody(r)
    IN IF t.exc
       THEN [smiles |-> None, mw |-> None, raised |-> FALSE]
       ELSE [smiles |-> t.smiles, mw |-> t.mw, raised |-> FALSE]

----------------------------------------------------------------------------
(* calculate_logp.  RDKit is a library: MolFromSmiles and MolLogP are held *)
(* as tables over the encodings the model uses.                            *)

\* round(x, ndigits) on a scaled integer: to the nearest unit, ties to even
Round(x, unit) ==
    LET q == x \div unit
        r == x % unit
    IN IF 2 * r < unit THEN q
       ELSE IF 2 * r > unit THEN q + 1
       ELSE IF q % 2 = 0 THEN q ELSE q + 1

\* Chem.MolFromSmiles: "raise" for an argument that is no str, "nomol" (None)
\* for text that does not parse, "mol" otherwise; the empty text parses to
\* the molecule without atoms.
ValidSmiles ==
    {"", "CSCC[C@H](N)C(=O)O", "CSCCC(N)C(=O)O", "CN(CC1=CN=C2N=C(N)N=C(N)C2=N1)C1=CC=C(C=C1)C(=O)NC(CCC(O)=O)C(O)=O",
     "COC1=CC(CC2=CN=C(N)N=C2N)=CC(OC)=C1OC"}

MolFromSmiles(v) ==
    IF v.k # "str" THEN "raise"
    ELSE IF v.s \in ValidSmiles THEN "mol" ELSE "nomol"

\* Descriptors.MolLogP of a parsed encoding, in millionths
MolLogP(s) ==
    CASE s = "CSCC[C@H](N)C(=O)O" -> -1877150
      [] s = "CSCCC(N)C(=O)O" -> -1877150
      [] s = "CN(CC1=CN=C2N=C(N)N=C(N)C2=N1)C1=CC=C(C=C1)C(=O)NC(CCC(O)=O)C(O)=O" -> 268249
      [] s = "COC1=CC(CC2=CN=C(N)N=C2N)=CC(OC)=C1OC" -> 1257550
      [] OTHER -> 0

calculate_logp_NoTry(smiles) ==
    IF smiles.k = "none" THEN [value |-> 0, raised |-> FALSE]
    ELSE IF MolFromSmiles(smiles) = "raise" THEN [value |-> 0, raised |-> TRUE]
    ELSE IF MolFromSmiles(smiles) = "mol"
         THEN [value |-> Round(MolLogP(smiles.s), 100), raised |-> FALSE]
    ELSE [value |-> 0, raised |-> FALSE]

\* calculate_logp, value in ten-thousandths; raised: an exception leaves it
calculate_logp(smiles) ==
    IF smiles.k = "none" THEN [value |-> 0, raised |-> FALSE]
    ELSE IF MolFromSmiles(smiles) = "raise" THEN [value |-> 0, raised |-> FALSE]
    ELSE IF MolFromSmiles(smiles) = "mol"
         THEN [value |-> Round(MolLogP(smiles.s), 100), raised |-> FALSE]
    ELSE [value |-> 0, raised |-> FALSE]

----------------------------------------------------------------------------
(* run_docking_simulation.  The two uniform draws are its inputs, in       *)
(* hundredths.                                                             *)

BaseHigh == -600
BaseLow == -1000
BonusLow == 100
BonusHigh == 200

run_docking_simulation_AddBonus(type, base, extra) ==
    IF type = "Synthetic" THEN Round(base + extra, 1) ELSE Round(base, 1)

run_docking_simulation(type, base, extra) ==
    IF type = "Synthetic" THEN Round(base - extra, 1) ELSE Round(base, 1)

\* random.uniform(a, b) = a + (b - a) * random(): the n-th draw of a process
\* whose generator started in state s.  The generator is a stand-in for the
\* library's: a fixed sequence per starting state.
Uniform(a, b, s, n) == a + ((b - a) * ((37 * s + 11 * n) % 101)) \div 100

----------------------------------------------------------------------------
(* The result store (results.db) and the exported file (natvssynt.csv)     *)

\* Python's repr of a float held as n / 10^d
RECURSIVE Pad(_, _)
Pad(x, w) ==
    IF w <= 1 THEN ToString(x)
    ELSE IF x < 10 ^ (w - 1) THEN "0" \o Pad(x, w - 1) ELSE ToString(x)

RECURSIVE FloatRepr(_, _)
FloatRepr(x, d) ==
    IF d > 1 /\ x % 10 = 0 THEN FloatRepr(x \div 10, d - 1)
    ELSE LET a == IF x < 0 THEN -x ELSE x
             p == 10 ^ d
         IN (IF x < 0 THEN "-" ELSE "") \o ToString(a \div p) \o "." \o Pad(a % p, d)

\* SQLite column affinity.  TEXT: a number is stored as its text.
TextAffinity(v) == IF v.k = "num" THEN Str(FloatRepr(v.n, 2)) ELSE v

\* REAL: text that is a well-formed number is stored as that number.
NumericText == {"441.4", "454.4", "290.32"}
NumericValue(t) ==
    CASE t = "441.4" -> 44140
      [] t = "454.4" -> 45440
      [] t = "290.32" -> 29032
      [] OTHER -> 0
RealAffinity(v) == IF v.k = "str" /\ v.s \in NumericText THEN Num(NumericValue(v.s)) ELSE v

Row(name, type, smiles, weight, logp, score) ==
    [name |-> name, type |-> type, smiles |-> TextAffinity(smiles),
     mw |-> RealAffinity(weight), logp |-> logp, score |-> score]

create_database_KeepTable(st) == st

\* create_database: DROP TABLE IF EXISTS, then CREATE TABLE
create_database(st) == <<>>

save_result_to_db_Prepend(st, name, type, smiles, weight, logp, score) ==
    <<Row(name, type, smiles, weight, logp, score)>> \o st

\* save_result_to_db: INSERT one row
save_result_to_db(st, name, type, smiles, weight, logp, score) ==
    Append(st, Row(name, type, smiles, weight, logp, score))

\* csv.writer: None is written as the empty field, a float as its repr
CsvCell(v) ==
    CASE v.k = "none" -> ""
      [] v.k = "str" -> v.s
      [] OTHER -> FloatRepr(v.n, 2)

CsvRow(row) ==
    <<row.name, row.type, CsvCell(row.smiles), CsvCell(row.mw),
      FloatRepr(row.logp, 4), FloatRepr(row.score, 2)>>

HEADER == <<"Name", "Type", "SMILES", "Molecular Weight", "LogP", "Score">>

export_to_csv_Append(old, st) ==
    old \o <<HEADER>> \o [i \in 1..Len(st) |-> CsvRow(st[i])]

\* export_to_csv: SELECT *, open(..., 'w'), header row, then all rows.  The
\* file is held as the rows csv.reader gives back (quoting removed).
export_to_csv(old, st) ==
    <<HEADER>> \o [i \in 1..Len(st) |-> CsvRow(st[i])]
----------------------------------------------------------------------------
(* SECTION 3: main                                                         *)

MainKeeps_Truthy(smiles) == Truthy(smiles)

\* main(): "if smiles_string is not None"
MainKeeps(smiles) == smiles.k # "none"

\* Draws the random module has made in this process: one per Natural row,
\* two per Synthetic row.
RECURSIVE DrawsSoFar(_)
DrawsSoFar(st) ==
    IF st = <<>> THEN 0
    ELSE (IF st[Len(st)].type = "Synthetic" THEN 2 ELSE 1) + DrawsSoFar(SubSeq(st, 1, Len(st) - 1))

\* main(): the body of the for loop after the fetch, for item i
AfterItem(st, i, sd, smiles, weight) ==
    LET drug_name == all_items_to_process[i][1]
        type == all_items_to_process[i][2]
        n == DrawsSoFar(st)
        affinity_score ==
            run_docking_simulation(type, Uniform(BaseHigh, BaseLow, sd, n),
                                   Uniform(BonusLow, BonusHigh, sd, n + 1))
    IN IF MainKeeps(smiles)
       THEN save_result_to_db(st, drug_name, type, smiles, weight,
                              calculate_logp(smiles).value, affinity_score)
       ELSE st

NextIndex_Retry(i, smiles) == IF smiles.k = "none" THEN i ELSE i + 1

\* main(): the for loop moves on to the next item whatever the fetch gave
NextIndex(i, smiles) == i + 1

----------------------------------------------------------------------------
(* The lookup service, as the pipeline sees it: each name has one entry,   *)
(* and any single request may fail instead of returning it.                *)

Entry(name) ==
    CASE name = "Dihydrofolate" ->
            <<Result(Str("CN(CC1=CN=C2N=C(N)N=C(N)C2=N1)C1=CC=C(C=C1)C(=O)NC(CCC(O)=O)C(O)=O"),
                     Str("CSCCC(N)C(=O)O"), None, Str("441.4"))>>
      [] name = "Folic Acid" -> <<Result(None, Num(500), None, Num(44140))>>
      [] name = "Tetrahydrofolate" ->
            <<Result(Str(""), Str(""), Str("CSCCC(N)C(=O)O"), Num(44540))>>
      [] name = "7,8-Dihydrobiopterin" -> <<Result(None, None, None, Num(23923))>>
      [] name = "L-Methionine" -> <<Result(Str("CSCC[C@H](N)C(=O)O"), None, None, Num(14921))>>
      [] name = "Methotrexate" ->
            <<Result(Str("CN(CC1=CN=C2N=C(N)N=C(N)C2=N1)C1=CC=C(C=C1)C(=O)NC(CCC(O)=O)C(O)=O"),
                     None, None, Str("454.4")),
              Result(Str("CSCCC(N)C(=O)O"), None, None, Num(14921))>>
      [] name = "Pemetrexed" -> <<Result(Str("not a smiles"), None, None, Num(42738))>>
      [] name = "Aminopterin" -> <<Result(None, Str("CSCCC(N)C(=O)O"), None, None)>>
      [] name = "Trimethoprim" ->
            <<Result(Str("COC1=CC(CC2=CN=C(N)N=C2N)=CC(OC)=C1OC"), None, None, Str("290.32"))>>
      [] OTHER -> <<Result(Str(""), None, Str(""), Num(24871))>>

FailureReplies ==
    {NetError, Http(404, "notjson", <<>>), Http(HttpOk, "notjson", <<>>),
     Http(HttpOk, "nokey", <<>>), Http(HttpOk, "table", <<>>)}

RepliesFor(name) == FailureReplies \cup {Http(HttpOk, "table", Entry(name))}

MaxSeed == 2
MaxSkipped == 1

NoUnit == upc = "off" /\ reply = NetError /\ raised = FALSE /\ log_p = 0
NoScore == drug_type = "" /\ random_score = 0 /\ bonus = 0 /\ final_score = 0
NoDash == dpc = "off" /\ df = <<>> /\ panels = 0 /\ labels = 0 /\ image = 0

Init ==
    /\ pc = "start" /\ idx = 0
    /\ smiles_string = None /\ mw = None
    /\ store = <<>> /\ file = <<>>
    /\ seed \in 1..MaxSeed
    /\ okNow = {} /\ fetched = <<>> /\ exports = 0
    /\ prevOk = {} /\ prevCount = -1
    /\ NoUnit /\ NoScore /\ NoDash

\* main(): create_database(), then the combined list is built
CreateDatabase ==
    /\ pc = "start"
    /\ store' = create_database(store)
    /\ idx' = 1
    /\ pc' = "loop"
    /\ UNCHANGED <<file, seed, okNow, fetched, exports, prevOk, prevCount>>
    /\ UNCHANGED <<localVars, unitVars, scoreVars, dashVars>>

\* main(): smiles_string, mw = get_compound_data(drug_name)
Fetch ==
    /\ pc = "loop" /\ idx <= NItems
    /\ \E r \in RepliesFor(all_items_to_process[idx][1]) :
          LET got == get_compound_data(r)
          IN /\ smiles_string' = got.smiles
             /\ mw' = got.mw
             /\ pc' = IF got.raised THEN "crashed" ELSE "fetched"
             /\ okNow' = IF got.smiles.k # "none"
                          THEN okNow \cup {all_items_to_process[idx][1]} ELSE okNow
    /\ fetched' = Append(fetched, all_items_to_process[idx][1])
    /\ UNCHANGED <<idx, store, file, seed, exports, prevOk, prevCount>>
    /\ UNCHANGED <<unitVars, scoreVars, dashVars>>

\* main(): the if/else on the fetched encoding, then time.sleep(1)
ProcessItem ==
    /\ pc = "fetched"
    /\ store' = AfterItem(store, idx, seed, smiles_string, mw)
    /\ pc' = IF MainKeeps(smiles_string) /\ calculate_logp(smiles_string).raised
              THEN "crashed" ELSE "loop"
    /\ idx' = NextIndex(idx, smiles_string)
    /\ UNCHANGED <<file, seed, okNow, fetched, exports, prevOk, prevCount>>
    /\ UNCHANGED <<localVars, unitVars, scoreVars, dashVars>>

\* main(): export_to_csv() after the loop
ExportToCsv ==
    /\ pc = "loop" /\ idx > NItems
    /\ file' = export_to_csv(file, store)
    /\ exports' = exports + 1
    /\ pc' = "done"
    /\ UNCHANGED <<idx, store, seed, okNow, fetched, prevOk, prevCount>>
    /\ UNCHANGED <<localVars, unitVars, scoreVars, dashVars>>

\* The script is started again: a new process, the two files as they were
\* left.  Explored after runs that skipped at most MaxSkipped items.
Rerun ==
    /\ pc = "done"
    /\ NItems - Len(store) <= MaxSkipped
    /\ pc' = "start" /\ idx' = 0
    /\ smiles_string' = None /\ mw' = None
    /\ seed' \in 1..MaxSeed
    /\ prevOk' = okNow /\ prevCount' = Len(store)
    /\ okNow' = {} /\ fetched' = <<>> /\ exports' = 0
    /\ UNCHANGED <<store, file>>
    /\ UNCHANGED <<unitVars, scoreVars, dashVars>>

MainStep == CreateDatabase \/ Fetch \/ ProcessItem \/ ExportToCsv

Next == MainStep \/ Rerun

Spec == Init /\ [][Next]_vars

\* The script's steps are sequential and each returns (the request has a
\* timeout, the sleep is one second): a started run keeps stepping.
FairSpec == Spec /\ WF_vars(MainStep)
----------------------------------------------------------------------------
(* Claims about the pipeline                                               *)

AllNames == [i \in 1..NItems |-> all_items_to_process[i][1]]
StoreNames == [j \in 1..Len(store) |-> store[j].name]
RowsOf(name, type) == {j \in 1..Len(store) : store[j].name = name /\ store[j].type = type}
Running == pc \in {"loop", "fetched"}

\* C1: after a complete run, an item whose fetch returned a non-null encoding
\* (the empty text included) has exactly one row with its name and category
\* in the store, and an item whose fetch returned null has no row in the
\* store and none in the exported file.
C1_FetchDecidesRow ==
    pc = "done" =>
        \A i \in 1..NItems :
            LET name == all_items_to_process[i][1]
                type == all_items_to_process[i][2]
            IN IF name \in okNow
               THEN Cardinality(RowsOf(name, type)) = 1
               ELSE /\ \A j \in 1..Len(store) : store[j].name # name
                    /\ \A j \in 1..Len(file) : file[j][1] # name

C1_Witness ==
    /\ pc = "done"
    /\ "Dihydrofolate" \notin okNow
    /\ "Pyrimethamine" \in okNow
    /\ \E j \in 1..Len(store) : store[j].name = "Pyrimethamine" /\ store[j].smiles = Str("")

\* C2: after export_to_csv the file is the fixed header row followed by the
\* rows of the store, in insertion order, each with its six values in column
\* order as csv writes them; the number of data rows is the store's row
\* count, and what the file held before is gone.
C2_ExportRoundTrip ==
    pc = "done" =>
        /\ Len(file) = Len(store) + 1
        /\ file[1] = <<"Name", "Type", "SMILES", "Molecular Weight", "LogP", "Score">>
        /\ \A i \in 1..Len(store) :
              /\ Len(file[i + 1]) = 6
              /\ file[i + 1][1] = store[i].name
              /\ file[i + 1][2] = store[i].type
              /\ file[i + 1][3] = store[i].smiles.s
              /\ file[i + 1][4] = (IF store[i].mw.k = "num" THEN FloatRepr(store[i].mw.n, 2)
                                   ELSE store[i].mw.s)
              /\ file[i + 1][5] = FloatRepr(store[i].logp, 4)
              /\ file[i + 1][6] = FloatRepr(store[i].score, 2)

C2_Witness ==
    /\ pc = "done"
    /\ prevCount > Len(store)
    /\ Len(store) >= 2
    /\ \E i \in 1..Len(store) : store[i].mw = None
    /\ \E i \in 1..Len(store) : store[i].mw.k = "num" /\ file[i + 1][4] = "441.4"

\* C5: a run starts from an empty store whatever the store held before, so
\* after a run the store holds only the rows appended during that run; two
\* runs with the same per-item fetch outcomes end with the same row count.
C5_FreshStoreEachRun ==
    /\ (Running /\ idx = 1) => store = <<>>
    /\ pc = "done" =>
          /\ Len(store) = Cardinality(okNow)
          /\ {store[j].name : j \in 1..Len(store)} = okNow
          /\ (prevCount >= 0 /\ prevOk = okNow) => Len(store) = prevCount

\* a second run with the outcomes of the first, about to export: same row
\* count, other scores than the file of the first run holds
C5_Witness ==
    /\ pc = "loop" /\ idx > NItems
    /\ prevCount > 0 /\ prevOk = okNow /\ Len(store) = prevCount
    /\ file # export_to_csv(file, store)

\* C7: no run crashes; items are fetched one after another in registry
\* order, each exactly once; the export happens once, after the last item was
\* stored or skipped; and every started run reaches the end of the export.
C7_ContainmentAndTermination ==
    /\ [](pc # "crashed")
    /\ [](Running => /\ exports = 0
                      /\ fetched = SubSeq(AllNames, 1, IF pc = "fetched" THEN idx ELSE idx - 1))
    /\ [](pc = "done" => fetched = AllNames /\ exports = 1)
    /\ [][exports' = exports + 1 => (pc = "loop" /\ idx > NItems /\ pc' = "done")]_vars
    /\ (pc = "start" ~> pc = "done")

C7_Witness ==
    /\ pc = "done"
    /\ okNow = {}
    /\ fetched = AllNames
    /\ file = <<HEADER>>

\* C9: during a run the store's rows are, in order, the already processed
\* items whose fetch returned a non-null encoding; a step either leaves the
\* store alone, appends one row at its end, or is the initialisation.
C9_AppendOnlyInProcessOrder ==
    /\ [](pc \in {"loop", "fetched", "done"} =>
            StoreNames = SelectSeq(SubSeq(AllNames, 1, IF pc = "done" THEN NItems ELSE idx - 1),
                                   LAMBDA nm : nm \in okNow))
    /\ [][\/ store' = store
          \/ pc = "start" /\ store' = <<>>
          \/ Len(store') = Len(store) + 1 /\ SubSeq(store', 1, Len(store)) = store]_vars

C9_Witness ==
    /\ pc = "fetched"
    /\ Len(store) >= 3
    /\ idx - 1 > Len(store)
    /\ store[1].type = "Natural"
    /\ store[Len(store)].type = "Synthetic"
----------------------------------------------------------------------------
(* Call harness: get_compound_data, calculate_logp and the loop body of    *)
(* main applied to one item, for every reply of a bounded set.             *)

MaxResults == 2

IsoValues == {None, Str(""), Str("CSCC[C@H](N)C(=O)O")}
CanValues == {None, Str(""), Str("CSCCC(N)C(=O)O")}
SmiValues == {None, Str(""), Str("not a smiles"), Num(500)}
WeightValues == {None, Num(14921), Str("441.4")}

FirstResults ==
    {Result(i, c, s, w) : i \in IsoValues, c \in CanValues, s \in SmiValues, w \in WeightValues}

\* results listed after the first one
LaterResults ==
    {Result(Str("COC1=CC(CC2=CN=C(N)N=C2N)=CC(OC)=C1OC"), None, None, Num(29032)),
     Result(None, None, None, None)}

RECURSIVE Tails(_)
Tails(n) ==
    IF n <= 0 THEN {<<>>}
    ELSE Tails(n - 1) \cup {Append(tl, x) : tl \in {u \in Tails(n - 1) : Len(u) = n - 1}, x \in LaterResults}

Replies ==
    FailureReplies
    \cup {Http(st, "table", <<f>>) : st \in {404, 503}, f \in FirstResults}
    \cup {Http(HttpOk, "table", <<f>> \o tl) : f \in FirstResults, tl \in Tails(MaxResults - 1)}

UnitInit ==
    /\ upc = "call"
    /\ reply \in Replies
    /\ raised = FALSE /\ log_p = 0
    /\ idx \in {1, NItems}
    /\ seed = 1
    /\ smiles_string = None /\ mw = None
    /\ store = <<>> /\ file = <<>>
    /\ pc = "off"
    /\ okNow = {} /\ fetched = <<>> /\ exports = 0
    /\ prevOk = {} /\ prevCount = -1
    /\ NoScore /\ NoDash

\* smiles_string, mw = get_compound_data(drug_name)
UnitFetch ==
    /\ upc = "call"
    /\ LET got == get_compound_data(reply)
       IN /\ smiles_string' = got.smiles
          /\ mw' = got.mw
          /\ raised' = got.raised
    /\ upc' = "fetched"
    /\ UNCHANGED <<reply, log_p, pipeVars, scoreVars, dashVars>>

\* log_p = calculate_logp(smiles_string), called whatever the fetch returned
UnitLogp ==
    /\ upc = "fetched"
    /\ log_p' = calculate_logp(smiles_string).value
    /\ raised' = calculate_logp(smiles_string).raised
    /\ upc' = "described"
    /\ UNCHANGED <<reply, localVars, pipeVars, scoreVars, dashVars>>

\* the loop body of main for this item
UnitProcess ==
    /\ upc = "described"
    /\ store' = AfterItem(store, idx, seed, smiles_string, mw)
    /\ upc' = "processed"
    /\ UNCHANGED <<pc, idx, file, seed, okNow, fetched, exports, prevOk, prevCount>>
    /\ UNCHANGED <<reply, raised, log_p, localVars, scoreVars, dashVars>>

UnitNext == UnitFetch \/ UnitLogp \/ UnitProcess

SpecUnit == UnitInit /\ [][UnitNext]_vars

Failed(r) ==
    \/ r.kind = "neterr"
    \/ r.status # HttpOk
    \/ r.body # "table"
    \/ Len(r.props) = 0

\* the first result carries none of the encoding fields
NoEncoding(res) ==
    res.IsomericSMILES = None /\ res.CanonicalSMILES = None /\ res.SMILES = None

\* C3 as claimed: the fetch never raises, and a null encoding is never
\* returned together with a non-null mass.
C3_Claimed ==
    upc = "fetched" => /\ ~raised
                       /\ smiles_string = None => mw = None

\* C3 as amended: the fetch never raises; on a network error, a non-200
\* reply, a malformed body or an empty results list both values are null; on
\* a 200 reply whose first result has none of the encoding fields the
\* encoding is null and the mass is that result's MolecularWeight, null only
\* when that field is missing too.
C3_NullPairOnFailure ==
    upc = "fetched" =>
        /\ ~raised
        /\ Failed(reply) => (smiles_string = None /\ mw = None)
        /\ (~Failed(reply) /\ NoEncoding(reply.props[1])) =>
               /\ smiles_string = None
               /\ mw = reply.props[1].MolecularWeight

C3_Witness ==
    /\ upc = "fetched"
    /\ ~Failed(reply)
    /\ NoEncoding(reply.props[1])
    /\ smiles_string = None
    /\ mw = Num(14921)

\* C4: on a 200 reply the encoding is the first non-empty value among
\* IsomericSMILES, CanonicalSMILES, SMILES of the first listed result.
C4_FieldPriority ==
    (upc = "fetched" /\ ~Failed(reply)) =>
        LET first == reply.props[1]
        IN /\ Truthy(first.IsomericSMILES) => smiles_string = first.IsomericSMILES
           /\ (~Truthy(first.IsomericSMILES) /\ Truthy(first.CanonicalSMILES)) =>
                  smiles_string = first.CanonicalSMILES
           /\ (~Truthy(first.IsomericSMILES) /\ ~Truthy(first.CanonicalSMILES)
                 /\ Truthy(first.SMILES)) => smiles_string = first.SMILES

C4_Witness ==
    /\ upc = "fetched"
    /\ ~Failed(reply)
    /\ Len(reply.props) = 2
    /\ reply.props[1].IsomericSMILES = Str("")
    /\ reply.props[1].CanonicalSMILES = None
    /\ reply.props[1].SMILES = Str("not a smiles")
    /\ Truthy(reply.props[2].IsomericSMILES)
    /\ smiles_string = Str("not a smiles")

\* C10: calculate_logp returns 0.0 for a null encoding, for text that does
\* not parse and for an argument on which parsing raises, and no exception
\* leaves it; the loop body stores such a non-null encoding as a row with
\* lipophilicity 0.0.
C10_ZeroDescriptorStillStored ==
    /\ upc \in {"described", "processed"} =>
          /\ ~raised
          /\ (smiles_string = None \/ MolFromSmiles(smiles_string) # "mol") => log_p = 0
    /\ (upc = "processed" /\ smiles_string # None /\ MolFromSmiles(smiles_string) # "mol") =>
          /\ Len(store) = 1
          /\ store[1].name = all_items_to_process[idx][1]
          /\ store[1].logp = 0

C10_Witness ==
    /\ upc = "processed"
    /\ smiles_string = Num(500)
    /\ Len(store) = 1
    /\ store[1].smiles = Str("5.0")
    /\ store[1].logp = 0

----------------------------------------------------------------------------
(* Call harness: run_docking_simulation for every pair of draws            *)

Labels == {"Natural", "Synthetic", "Control"}

ScoreInit ==
    /\ upc = "call"
    /\ drug_type \in Labels
    /\ random_score = 0 /\ bonus = 0 /\ final_score = 0
    /\ reply = NetError /\ raised = FALSE /\ log_p = 0
    /\ pc = "off" /\ idx = 0
    /\ smiles_string = None /\ mw = None
    /\ store = <<>> /\ file = <<>>
    /\ seed = 0
    /\ okNow = {} /\ fetched = <<>> /\ exports = 0
    /\ prevOk = {} /\ prevCount = -1
    /\ NoDash

\* run_docking_simulation(drug_type): the second draw is made for Synthetic only
ScoreCall ==
    /\ upc = "call"
    /\ \E base \in BaseLow..BaseHigh :
          /\ random_score' = base
          /\ IF drug_type = "Synthetic"
             THEN \E extra \in BonusLow..BonusHigh :
                     /\ bonus' = extra
                     /\ final_score' = run_docking_simulation(drug_type, base, extra)
             ELSE /\ bonus' = bonus
                  /\ final_score' = run_docking_simulation(drug_type, base, bonus)
    /\ upc' = "scored"
    /\ UNCHANGED <<drug_type, reply, raised, log_p, pipeVars, localVars, dashVars>>

SpecScore == ScoreInit /\ [][ScoreCall]_vars

\* C6: score(Natural) is the base draw and lies in [-10.00, -6.00];
\* score(Synthetic) is base minus bonus, lies in [-12.00, -6.00] and is
\* strictly lower than the Natural score for the same base draw; any other
\* label gets no adjustment.
C6_ScoreBounds ==
    upc = "scored" =>
        /\ drug_type # "Synthetic" =>
              /\ final_score = random_score
              /\ -1000 <= final_score /\ final_score <= -600
        /\ drug_type = "Synthetic" =>
              /\ final_score = random_score - bonus
              /\ -1200 <= final_score /\ final_score <= -600
              /\ final_score < run_docking_simulation("Natural", random_score, bonus)

C6_Witness ==
    /\ upc = "scored"
    /\ drug_type = "Synthetic"
    /\ random_score = -1000 /\ bonus = 200
    /\ final_score = -1200
----------------------------------------------------------------------------
(* plots.py: create_dashboard, run on a file the pipeline left behind.     *)
(* pandas, matplotlib and numpy are libraries: each step is held by        *)
(* whether it returns or raises on the loaded table.                       *)

\* main(): the store after the first k items, when the fetch succeeds for
\* the items in ok and fails for the others
RECURSIVE StoreAfter(_, _, _)
StoreAfter(k, ok, sd) ==
    IF k = 0 THEN <<>>
    ELSE LET got == IF k \in ok
                    THEN get_compound_data(Http(HttpOk, "table", Entry(all_items_to_process[k][1])))
                    ELSE get_compound_data(NetError)
         IN AfterItem(StoreAfter(k - 1, ok, sd), k, sd, got.smiles, got.mw)

ExportedFiles == {export_to_csv(<<>>, StoreAfter(NItems, ok, 1)) : ok \in SUBSET (1..NItems)}

colors == {"Natural", "Synthetic"}

\* pandas reads an empty field as NaN
IsNaN(cell) == cell = ""

\* np.polyfit(x, y, 1): raises on empty vectors; with a NaN in the data the
\* least-squares routine either raises (SVD did not converge) or returns NaN
\* coefficients, depending on the LAPACK build.
PolyfitOutcomes(table) ==
    IF Len(table) = 0 THEN {"raise"}
    ELSE IF \E i \in 1..Len(table) : IsNaN(table[i][4]) THEN {"raise", "return"}
    ELSE {"return"}

\* groupby('Type')['Score'].mean() and the bar chart: colors[t] raises for a
\* label that is no key of colors (the pipeline writes none); an empty table
\* gives an empty chart.
Panel1Outcomes(table) ==
    IF \E i \in 1..Len(table) : table[i][2] \notin colors THEN {"raise"} ELSE {"return"}

DashInit ==
    /\ dpc = "start"
    /\ file \in {<<>>} \cup ExportedFiles
    /\ df = <<>> /\ panels = 0 /\ labels = 0 /\ image = 0
    /\ pc = "off" /\ idx = 0
    /\ smiles_string = None /\ mw = None
    /\ store = <<>>
    /\ seed = 0
    /\ okNow = {} /\ fetched = <<>> /\ exports = 0
    /\ prevOk = {} /\ prevCount = -1
    /\ NoUnit /\ NoScore

DashFrame == <<pipeVars, localVars, unitVars, scoreVars>>

\* df = pd.read_csv('natvssynt.csv'); on an exception: print, return
LoadData ==
    /\ dpc = "start"
    /\ IF file = <<>>
       THEN dpc' = "aborted" /\ df' = df
       ELSE dpc' = "loaded" /\ df' = Tail(file)
    /\ UNCHANGED <<panels, labels, image, DashFrame>>

\* Graph 1: average score by type
Panel1 ==
    /\ dpc = "loaded" /\ panels = 0
    /\ \E out \in Panel1Outcomes(df) :
          IF out = "raise"
          THEN dpc' = "crashed" /\ panels' = panels
          ELSE dpc' = dpc /\ panels' = 1
    /\ UNCHANGED <<df, labels, image, DashFrame>>

\* Graph 2: the leaderboard
Panel2 ==
    /\ dpc = "loaded" /\ panels = 1
    /\ panels' = 2
    /\ UNCHANGED <<dpc, df, labels, image, DashFrame>>

\* Graph 3: molecular weight against LogP
Panel3 ==
    /\ dpc = "loaded" /\ panels = 2
    /\ panels' = 3
    /\ UNCHANGED <<dpc, df, labels, image, DashFrame>>

\* Graph 3: "for i in range(df.shape[0])", one ax3.text per row
LabelPoint ==
    /\ dpc = "loaded" /\ panels = 3
    /\ labels < Len(df)
    /\ labels' = labels + 1
    /\ UNCHANGED <<dpc, df, panels, image, DashFrame>>

\* Graph 4: molecular weight against score, with the trend line
Panel4 ==
    /\ dpc = "loaded" /\ panels = 3
    /\ labels = Len(df)
    /\ \E out \in PolyfitOutcomes(df) :
          IF out = "raise"
          THEN dpc' = "crashed" /\ panels' = panels
          ELSE dpc' = dpc /\ panels' = 4
    /\ UNCHANGED <<df, labels, image, DashFrame>>

\* plt.savefig('dashboard.png', dpi=300)
SaveFig ==
    /\ dpc = "loaded" /\ panels = 4
    /\ image' = image + 1
    /\ dpc' = "done"
    /\ UNCHANGED <<df, panels, labels, DashFrame>>

DashNext == LoadData \/ Panel1 \/ Panel2 \/ Panel3 \/ LabelPoint \/ Panel4 \/ SaveFig

SpecDash == DashInit /\ [][DashNext]_vars

\* C8: create_dashboard writes its image if and only if the exported table
\* loads: when it has ended, a table that loaded (a header-only one, one
\* with a single category, one with a missing mass) has its four panels
\* drawn and one image written, and a failed load has written none.
C8_ImageIffLoaded ==
    dpc \in {"done", "aborted", "crashed"} =>
        /\ file = <<>> => image = 0
        /\ file # <<>> => (panels = 4 /\ image = 1)
====
